---- MODULE Spec2Model ----
(***************************************************************************)
(* A model of the wilf evaluator: the driver functions of src/ast.rs       *)
(* (eval_expr, eval_script) and the environment, the built-in procedure    *)
(* table and the quasiquote expander of src/ast/env.rs.                    *)
(*                                                                         *)
(* Expr::eval, eval_forms, Expr::expand_once and Expr::expand_all live in  *)
(* src/ast/expr.rs; they are modelled from sections 4.2 and 4.4 of the     *)
(* specification.                                                          *)
(*                                                                         *)
(* f64 values are modelled by integers.  The evaluator is a recursive      *)
(* function over expression trees; it threads a record st holding          *)
(*   env : the chain of scope tables, outermost first, innermost last,     *)
(*   out : what print/println wrote to stdout,                             *)
(*   tr  : (observer) every expression on which eval was entered, in order,*)
(*   log : (observer) one record per native procedure call.                *)
(***************************************************************************)
EXTENDS Integers, Sequences, FiniteSets, TLC

\* ------------------------------------------------------------------ bounds
MaxForms == 3
MaxCalls == 2

\* -------------------------------------------------------------------- Expr
\* Every expression is a record of one shape: t the variant, s a name or a
\* string, n a number (Bool: 1 = true, 0 = false), l the sub-expressions.
Mk(t, s, n, l) == [t |-> t, s |-> s, n |-> n, l |-> l]
Symbol(s) == Mk("Symbol", s, 0, <<>>)
Float(n) == Mk("Float", "", n, <<>>)
Bool(b) == Mk("Bool", "", IF b THEN 1 ELSE 0, <<>>)
String(s) == Mk("String", s, 0, <<>>)
List(l) == Mk("List", "", 0, l)
Fn(name) == Mk("Fn", name, 0, <<>>)
Lambda(bindings, body) == Mk("Lambda", "", 0, <<bindings, body>>)
Macro(bindings, body) == Mk("Macro", "", 0, <<bindings, body>>)
Nil == Mk("Nil", "", 0, <<>>)

\* ---------------------------------------------------------------- LispError
NoError == [e |-> "", ty |-> "", x |-> Nil, name |-> ""]
TypeMismatch(ty, x) == [e |-> "TypeMismatch", ty |-> ty, x |-> x, name |-> ""]
SymbolNotFound(name) == [e |-> "SymbolNotFound", ty |-> "", x |-> Nil, name |-> name]
MalformedList(l) == [e |-> "MalformedList", ty |-> "", x |-> List(l), name |-> ""]
Arity == [e |-> "Arity", ty |-> "", x |-> Nil, name |-> ""]

\* Result<Expr, LispError>, with the evaluator's state after the call.  A
\* Rust panic (an index out of bounds, an expect on None) is the third outcome.
Ok(v, st) == [k |-> "Ok", v |-> v, err |-> NoError, st |-> st]
Err(e, st) == [k |-> "Err", v |-> Nil, err |-> e, st |-> st]
Panic(st) == [k |-> "Panic", v |-> Nil, err |-> NoError, st |-> st]

\* --------------------------------------------------------------------- Env
Reverse(s) == [j \in 1..Len(s) |-> s[Len(s) + 1 - j]]
Tail2(s) == SubSeq(s, 2, Len(s))
Front(s) == SubSeq(s, 1, Len(s) - 1)

EmptyData == [k \in {} |-> Nil]

with_outer(env) == Append(env, EmptyData)

None == [some |-> FALSE, v |-> Nil]
Some(v) == [some |-> TRUE, v |-> v]

\* HashMap::get on one table.
data_get(data, k) == IF k \in DOMAIN data THEN Some(data[k]) ELSE None

RECURSIVE get(_, _)
get(env, k) ==
    LET here == data_get(env[Len(env)], k)
    IN  IF here.some THEN here
        ELSE IF Len(env) > 1 THEN get(Front(env), k)
        ELSE None

\* HashMap::insert on one table.
data_insert(data, k, v) ==
    [x \in DOMAIN data \cup {k} |-> IF x = k THEN v ELSE data[x]]

\* (mutant) The binding goes into the outermost table.
insert_outermost(env, k, v) ==
    [env EXCEPT ![1] = data_insert(env[1], k, v)]

\* env.data.insert(k, v): the table of the environment at hand, the innermost.
insert(env, k, v) ==
    [env EXCEPT ![Len(env)] = data_insert(env[Len(env)], k, v)]

Builtins ==
    {"=", "<", ">", "<=", ">=", "+", "-", "*", "/", "not", "and", "m-expand1",
     "quote", "quasiquote", "def", "if", "do", "fn", "macro", "let", "dbg",
     "print", "println", "readline", "time"}

\* Env::default(): one table holding the native procedures, no outer.
DefaultEnv == << [k \in Builtins |-> Fn(k)] >>

\* ------------------------------------------------------ evaluator state st
InitSt(env) == [env |-> env, out |-> <<>>, tr |-> <<>>, log |-> <<>>]
Enter(expr, st) == [st EXCEPT !.tr = Append(@, expr)]
Write_(v, st) == [st EXCEPT !.out = Append(@, v)]

\* Then(x, F) is F(x) with x evaluated once (sequencing of two steps).
Then(x, F(_)) == CHOOSE y \in { F(r) : r \in {x} } : TRUE

RECURSIVE Eval(_, _)
RECURSIVE eval_forms(_, _)
RECURSIVE parse_nums(_, _)
RECURSIVE parse_bools(_, _)
RECURSIVE quasiquote(_, _)
RECURSIVE qq_loop(_, _, _)
RECURSIVE let_pairs(_, _)
RECURSIVE Native(_, _, _)
RECURSIVE expand_once(_, _)
RECURSIVE expand_all(_, _)
RECURSIVE expand_list(_, _)

\* A sequence result: vals are the collected values.
OkS(vals, st) == [k |-> "Ok", vals |-> vals, err |-> NoError, st |-> st]
ErrS(r) == [k |-> r.k, vals |-> <<>>, err |-> r.err, st |-> r.st]

\* list.iter().map(|e| match e.eval(env) { Float(n) => Ok(n), .. }).collect():
\* the elements are evaluated left to right and the first Err ends the walk.
parse_nums(list, st) ==
    IF list = <<>> THEN OkS(<<>>, st)
    ELSE Then(Eval(Head(list), st), LAMBDA r :
             IF r.k # "Ok" THEN ErrS(r)
             ELSE IF r.v.t # "Float"
                  THEN ErrS(Err(TypeMismatch("Float", r.v), r.st))
             ELSE Then(parse_nums(Tail(list), r.st), LAMBDA rest :
                      IF rest.k # "Ok" THEN rest
                      ELSE OkS(<<r.v.n>> \o rest.vals, rest.st)))

parse_bools(list, st) ==
    IF list = <<>> THEN OkS(<<>>, st)
    ELSE Then(Eval(Head(list), st), LAMBDA r :
             IF r.k # "Ok" THEN ErrS(r)
             ELSE IF r.v.t # "Bool"
                  THEN ErrS(Err(TypeMismatch("Bool", r.v), r.st))
             ELSE Then(parse_bools(Tail(list), r.st), LAMBDA rest :
                      IF rest.k # "Ok" THEN rest
                      ELSE OkS(<<r.v.n = 1>> \o rest.vals, rest.st)))

\* eval_forms: every form of the slice evaluated in order, the values collected.
eval_forms(list, st) ==
    IF list = <<>> THEN OkS(<<>>, st)
    ELSE Then(Eval(Head(list), st), LAMBDA r :
             IF r.k # "Ok" THEN ErrS(r)
             ELSE Then(eval_forms(Tail(list), r.st), LAMBDA rest :
                      IF rest.k # "Ok" THEN rest
                      ELSE OkS(<<r.v>> \o rest.vals, rest.st)))

RECURSIVE Sum(_)
Sum(s) == IF s = <<>> THEN 0 ELSE Head(s) + Sum(Tail(s))
RECURSIVE Product(_)
Product(s) == IF s = <<>> THEN 1 ELSE Head(s) * Product(Tail(s))

\* f64 division, exact where the quotient is an integer of the model; any other
\* quotient (a fraction, a division by zero) is a Float outside the integers,
\* which no input of this model feeds to another operator.
FloatDiv(a, b) ==
    IF b # 0 /\ (a \div b) * b = a THEN Float(a \div b)
    ELSE Mk("Float", "inexact", 0, <<>>)

FromS(p) == [k |-> p.k, v |-> Nil, err |-> p.err, st |-> p.st]

Op(name, a, b) ==
    CASE name = "=" -> a = b
      [] name = "<" -> a < b
      [] name = ">" -> a > b
      [] name = "<=" -> a <= b
      [] name = ">=" -> a >= b

\* tonicity!(op): every window of two neighbours satisfies op.
tonicity(name, args, st) ==
    Then(parse_nums(args, st), LAMBDA p :
        IF p.k # "Ok" THEN FromS(p)
        ELSE Ok(Bool(\A j \in 1..(Len(p.vals) - 1) :
                        Op(name, p.vals[j], p.vals[j + 1])), p.st))

Plus(args, st) ==
    Then(parse_nums(args, st), LAMBDA p :
        IF p.k # "Ok" THEN FromS(p) ELSE Ok(Float(Sum(p.vals)), p.st))

Minus(args, st) ==
    Then(parse_nums(args, st), LAMBDA p :
        IF p.k # "Ok" THEN FromS(p)
        ELSE IF Len(p.vals) = 0 THEN Panic(p.st)
        ELSE IF Len(p.vals) = 1 THEN Ok(Float(0 - p.vals[1]), p.st)
        ELSE Ok(Float(p.vals[1] - Sum(Tail(p.vals))), p.st))

Times(args, st) ==
    Then(parse_nums(args, st), LAMBDA p :
        IF p.k # "Ok" THEN FromS(p) ELSE Ok(Float(Product(p.vals)), p.st))

Divide(args, st) ==
    Then(parse_nums(args, st), LAMBDA p :
        IF p.k # "Ok" THEN FromS(p)
        ELSE IF Len(p.vals) = 0 THEN Panic(p.st)
        ELSE Ok(FloatDiv(p.vals[1], Product(Tail(p.vals))), p.st))

\* "not": only args[0] is read, and anything but Bool(false) gives false.
Not(args, st) ==
    IF Len(args) = 0 THEN Err(Arity, st)
    ELSE Then(Eval(args[1], st), LAMBDA r :
             IF r.k # "Ok" THEN r
             ELSE IF r.v = Bool(FALSE) THEN Ok(Bool(TRUE), r.st)
             ELSE Ok(Bool(FALSE), r.st))

And(args, st) ==
    Then(parse_bools(args, st), LAMBDA p :
        IF p.k # "Ok" THEN FromS(p)
        ELSE Ok(Bool(\A j \in 1..Len(p.vals) : p.vals[j]), p.st))

MExpand1(args, st) ==
    IF Len(args) = 0 THEN Panic(st) ELSE expand_once(args[1], st)

Quote(args, st) ==
    IF Len(args) = 0 THEN Panic(st) ELSE Ok(args[1], st)

Quasiquote(args, st) == quasiquote(args, st)

\* (mutant) The value is computed and the symbol returned, nothing is bound.
DefNoBind(args, st) ==
    IF Len(args) = 0 THEN Panic(st)
    ELSE IF args[1].t # "Symbol" THEN Err(TypeMismatch("Symbol", args[1]), st)
    ELSE IF Len(args) # 2 THEN Err(Arity, st)
    ELSE Then(Eval(args[2], st), LAMBDA r :
             IF r.k # "Ok" THEN r ELSE Ok(args[1], r.st))

Def(args, st) ==
    IF Len(args) = 0 THEN Panic(st)
    ELSE IF args[1].t # "Symbol" THEN Err(TypeMismatch("Symbol", args[1]), st)
    ELSE IF Len(args) < 2 THEN Err(Arity, st)
    ELSE IF Len(args) > 2 THEN Err(Arity, st)
    ELSE Then(Eval(args[2], st), LAMBDA r :
             IF r.k # "Ok" THEN r
             ELSE Ok(args[1],
                     [r.st EXCEPT !.env = insert(r.st.env, args[1].s, r.v)]))

\* (mutant) Both branches are evaluated, then one value is chosen.
IfEager(args, st) ==
    IF Len(args) # 3 THEN Err(Arity, st)
    ELSE Then(Eval(args[1], st), LAMBDA test :
             IF test.k # "Ok" THEN test
             ELSE IF test.v.t # "Bool"
                  THEN Err(TypeMismatch("Bool", test.v), test.st)
             ELSE Then(Eval(args[2], test.st), LAMBDA c :
                      Then(Eval(args[3], c.st), LAMBDA a :
                          IF test.v = Bool(TRUE)
                          THEN [c EXCEPT !.st = a.st] ELSE a)))

If(args, st) ==
    IF Len(args) > 3 THEN Err(Arity, st)
    ELSE IF Len(args) = 0 THEN Panic(st)
    ELSE Then(Eval(args[1], st), LAMBDA test :
             IF test.k # "Ok" THEN test
             ELSE IF test.v = Bool(TRUE)
                  THEN IF Len(args) < 2 THEN Panic(test.st)
                       ELSE Eval(args[2], test.st)
             ELSE IF test.v = Bool(FALSE)
                  THEN IF Len(args) < 3 THEN Panic(test.st)
                       ELSE Eval(args[3], test.st)
             ELSE Err(TypeMismatch("Bool", test.v), test.st))

\* The child scope is dropped when the handler returns, whatever the outcome.
Child(st) == [st EXCEPT !.env = with_outer(@)]
Drop(r) == [r EXCEPT !.st.env = Front(@)]

\* The forms `rest` of "do" hands to eval_forms.
do_rest(args) == SubSeq(args, 1, Len(args))

\* "do": rest = &args[..args.len()] is the whole of args; eval_forms walks it,
\* and then args.last() is evaluated in the same child scope.
Do(args, st) ==
    Then(eval_forms(do_rest(args), Child(st)), LAMBDA forms :
        IF forms.k # "Ok" THEN Drop(FromS(forms))
        ELSE IF Len(args) = 0 THEN Drop(Panic(forms.st))
        ELSE Drop(Eval(args[Len(args)], forms.st)))

FnForm(args, st) ==
    IF Len(args) < 1 THEN Err(Arity, st)
    ELSE IF Len(args) < 2 THEN Err(Arity, st)
    ELSE IF Len(args) > 2 THEN Err(Arity, st)
    ELSE Ok(Lambda(args[1], args[2]), st)

MacroForm(args, st) ==
    IF Len(args) < 1 THEN Err(Arity, st)
    ELSE IF Len(args) < 2 THEN Err(Arity, st)
    ELSE IF Len(args) > 2 THEN Err(Arity, st)
    ELSE Ok(Macro(args[1], args[2]), st)

\* bindings.chunks(2).map(..).try_collect(): pair by pair, each value evaluated
\* in the child scope and bound there before the next pair is looked at.
let_pairs(bindings, st) ==
    IF bindings = <<>> THEN Ok(Nil, st)
    ELSE IF Len(bindings) < 2 THEN Panic(st)
    ELSE IF bindings[1].t # "Symbol"
         THEN Err(TypeMismatch("Symbol", bindings[1]), st)
    ELSE Then(Eval(bindings[2], st), LAMBDA r :
             IF r.k # "Ok" THEN r
             ELSE let_pairs(Tail2(Tail2(bindings)),
                     [r.st EXCEPT !.env = insert(r.st.env, bindings[1].s, r.v)]))

Let(args, st) ==
    IF Len(args) # 2 THEN Err(Arity, st)
    ELSE IF args[1].t # "List" THEN Err(TypeMismatch("List", args[1]), st)
    ELSE Then(let_pairs(args[1].l, Child(st)), LAMBDA b :
             IF b.k # "Ok" THEN Drop(b)
             ELSE Drop(Eval(args[2], b.st)))

Dbg(args, st) ==
    IF Len(args) # 1 THEN Err(Arity, st) ELSE Eval(args[1], st)

PrintForm(args, st) ==
    IF Len(args) # 1 THEN Err(Arity, st)
    ELSE Then(Eval(args[1], st), LAMBDA r :
             IF r.k # "Ok" THEN r ELSE Ok(r.v, Write_(r.v, r.st)))

\* "readline" with stdin at end of file: the prompt is written, "" is read.
Readline(args, st) ==
    IF Len(args) > 1 THEN Err(Arity, st)
    ELSE IF Len(args) = 1 /\ args[1].t = "String"
         THEN Ok(String(""), Write_(args[1], st))
    ELSE Ok(String(""), st)

\* "time": the elapsed time is written to stdout after the evaluation.
Time(args, st) ==
    IF Len(args) # 1 THEN Err(Arity, st)
    ELSE Then(Eval(args[1], st), LAMBDA r :
             IF r.k # "Ok" THEN r ELSE Ok(r.v, Write_(String("Eval time"), r.st)))

\* -------------------------------------------------------------- quasiquote
\* (mutant) The splice target is looked up through the whole chain.
splice_lookup_chain(env, k) == get(env, k)

\* The table a (splice-unquote k) is looked up in: env.data, the innermost.
splice_lookup(env, k) == data_get(env[Len(env)], k)

\* What an (unquote k) is looked up in: env.get, the whole chain.
unquote_lookup(env, k) == get(env, k)

\* The payload check of a list that starts with two symbols.
rest_is_empty(l) == Len(l) = 2

\* (mutant) The spliced elements are pushed without the .rev().
splice_append_forward(results, l) == results \o l

\* results.append(&mut l.iter().cloned().rev().collect()).
splice_append(results, l) == results \o Reverse(l)

\* One turn of `for element in args.into_iter().rev()`: rev is what is left of
\* the reversed arguments, results the stack built so far.
qq_loop(rev, results, st) ==
    IF rev = <<>> THEN Ok(List(Reverse(results)), st)
    ELSE LET element == Head(rev)
             l == element.l
         IN  IF element.t # "List"
             THEN qq_loop(Tail(rev), Append(results, element), st)
             ELSE IF Len(l) >= 2 /\ l[1].t = "Symbol" /\ l[2].t = "Symbol"
             THEN IF ~rest_is_empty(l) THEN Err(Arity, st)
                  ELSE IF l[1].s = "unquote"
                  THEN LET d == unquote_lookup(st.env, l[2].s)
                       IN  qq_loop(Tail(rev),
                               Append(results, IF d.some THEN d.v ELSE element), st)
                  ELSE IF l[1].s = "splice-unquote"
                  THEN LET d == splice_lookup(st.env, l[2].s)
                       IN  IF ~d.some THEN Err(SymbolNotFound(l[2].s), st)
                           ELSE IF d.v.t = "List"
                           THEN qq_loop(Tail(rev), splice_append(results, d.v.l), st)
                           ELSE qq_loop(Tail(rev), results, st)
                  ELSE qq_loop(Tail(rev), Append(results, element), st)
             ELSE Then(quasiquote(l, st), LAMBDA r :
                      IF r.k # "Ok" THEN r
                      ELSE qq_loop(Tail(rev), Append(results, r.v), r.st))

quasiquote(args, st) == qq_loop(Reverse(args), <<>>, st)

\* ------------------------------------------------------- the native table
Native(name, args, st) ==
    CASE name \in {"=", "<", ">", "<=", ">="} -> tonicity(name, args, st)
      [] name = "+" -> Plus(args, st)
      [] name = "-" -> Minus(args, st)
      [] name = "*" -> Times(args, st)
      [] name = "/" -> Divide(args, st)
      [] name = "not" -> Not(args, st)
      [] name = "and" -> And(args, st)
      [] name = "m-expand1" -> MExpand1(args, st)
      [] name = "quote" -> Quote(args, st)
      [] name = "quasiquote" -> Quasiquote(args, st)
      [] name = "def" -> Def(args, st)
      [] name = "if" -> If(args, st)
      [] name = "do" -> Do(args, st)
      [] name = "fn" -> FnForm(args, st)
      [] name = "macro" -> MacroForm(args, st)
      [] name = "let" -> Let(args, st)
      [] name = "dbg" -> Dbg(args, st)
      [] name = "print" -> PrintForm(args, st)
      [] name = "println" -> PrintForm(args, st)
      [] name = "readline" -> Readline(args, st)
      [] name = "time" -> Time(args, st)

\* (observer) A native call with its record appended to st.log: the procedure,
\* its unevaluated arguments, the chain before and after, the outcome, and the
\* part of st.tr the call covers (entries t0+1 .. t1).
Call(name, args, st) ==
    Then(Native(name, args, st), LAMBDA r :
        [r EXCEPT !.st.log = Append(@,
            [name |-> name, args |-> args, env |-> st.env, after |-> r.st.env,
             k |-> r.k, v |-> r.v, err |-> r.err,
             t0 |-> Len(st.tr), t1 |-> Len(r.st.tr),
             o0 |-> Len(st.out), o1 |-> Len(r.st.out)])])

\* ------------------------------------------- eval, application, expansion
\* Pairwise binding of parameter symbols in the (fresh) innermost table.
RECURSIVE bind_loop(_, _, _)
bind_loop(params, vals, st) ==
    IF params = <<>> THEN Ok(Nil, st)
    ELSE IF Head(params).t # "Symbol"
         THEN Err(TypeMismatch("Symbol", Head(params)), st)
    ELSE bind_loop(Tail(params), Tail(vals),
             [st EXCEPT !.env = insert(@, Head(params).s, Head(vals))])

bind(bindings, vals, st) ==
    IF bindings.t # "List" THEN Err(TypeMismatch("List", bindings), st)
    ELSE IF Len(bindings.l) # Len(vals) THEN Err(Arity, st)
    ELSE bind_loop(bindings.l, vals, st)

\* Lambda application: the arguments evaluated eagerly in the calling
\* environment, the body in a child of it (dynamic scope).
Apply(lam, args, st) ==
    Then(eval_forms(args, st), LAMBDA ev :
        IF ev.k # "Ok" THEN FromS(ev)
        ELSE Then(bind(lam.l[1], ev.vals, Child(ev.st)), LAMBDA b :
                 IF b.k # "Ok" THEN Drop(b) ELSE Drop(Eval(lam.l[2], b.st))))

Eval(expr, st) ==
    Then(Enter(expr, st), LAMBDA s0 :
        IF expr.t = "Symbol"
        THEN Then(get(s0.env, expr.s), LAMBDA d :
                 IF d.some THEN Ok(d.v, s0) ELSE Err(SymbolNotFound(expr.s), s0))
        ELSE IF expr.t = "List"
        THEN IF expr.l = <<>> THEN Err(MalformedList(<<>>), s0)
             ELSE Then(Eval(Head(expr.l), s0), LAMBDA h :
                      IF h.k # "Ok" THEN h
                      ELSE IF h.v.t = "Fn" THEN Call(h.v.s, Tail(expr.l), h.st)
                      ELSE IF h.v.t = "Lambda" THEN Apply(h.v, Tail(expr.l), h.st)
                      ELSE Err(MalformedList(expr.l), h.st))
        ELSE Ok(expr, s0))

IsMacroCall(expr, env) ==
    /\ expr.t = "List"
    /\ Len(expr.l) >= 1
    /\ Head(expr.l).t = "Symbol"
    /\ get(env, Head(expr.l).s).some
    /\ get(env, Head(expr.l).s).v.t = "Macro"

expand_once(expr, st) ==
    IF ~IsMacroCall(expr, st.env) THEN Ok(expr, st)
    ELSE Then(get(st.env, Head(expr.l).s).v, LAMBDA m :
             Then(bind(m.l[1], Tail(expr.l), Child(st)), LAMBDA b :
                 IF b.k # "Ok" THEN Drop(b) ELSE Drop(Eval(m.l[2], b.st))))

expand_list(list, st) ==
    IF list = <<>> THEN OkS(<<>>, st)
    ELSE Then(expand_all(Head(list), st), LAMBDA r :
             IF r.k # "Ok" THEN ErrS(r)
             ELSE Then(expand_list(Tail(list), r.st), LAMBDA rest :
                      IF rest.k # "Ok" THEN rest
                      ELSE OkS(<<r.v>> \o rest.vals, rest.st)))

expand_all(expr, st) ==
    IF IsMacroCall(expr, st.env)
    THEN Then(expand_once(expr, st), LAMBDA r :
             IF r.k # "Ok" THEN r ELSE expand_all(r.v, r.st))
    ELSE IF expr.t = "List"
    THEN Then(expand_list(expr.l, st), LAMBDA r :
             IF r.k # "Ok" THEN FromS(r) ELSE Ok(List(r.vals), r.st))
    ELSE Ok(expr, st)

\* expr.expand_all(env)?.eval(env)
RunForm(expr, env) ==
    Then(expand_all(expr, InitSt(env)), LAMBDA a :
        IF a.k # "Ok" THEN a ELSE Eval(a.v, a.st))

\* ------------------------------------------------------------ the inputs
S(x) == Symbol(x)
L(l) == List(l)
F(n) == Float(n)
QQ(l) == L(<<S("quasiquote")>> \o l)
Unq(x) == L(<<S("unquote"), S(x)>>)
Spl(x) == L(<<S("splice-unquote"), S(x)>>)
DefLst == L(<<S("def"), S("lst"), L(<<S("quote"), L(<<F(2), F(3)>>)>>)>>)
DefX == L(<<S("def"), S("x"), F(5)>>)
DefM == L(<<S("def"), S("m"), L(<<S("macro"), L(<<S("a")>>), S("a")>>)>>)
Pr(e) == L(<<S("print"), e>>)

\* The top-level forms a script is made of.
ScriptForms ==
    { DefX,
      L(<<S("+"), S("x"), F(1)>>),
      DefLst,
      QQ(<<F(1), Spl("lst"), F(4)>>),
      DefM,
      L(<<S("m")>>),
      S("x") }

MacroForms ==
    { L(<<S("m"), F(7)>>),
      L(<<S("m"), F(1), F(2)>>),
      L(<<S("m-expand1"), L(<<S("quote"), L(<<S("m"), F(7)>>)>>)>>),
      S("u") }

ArityForms ==
    { L(<<S(h)>> \o a) :
        h \in {"def", "if", "fn", "macro", "let"},
        a \in { <<>>, <<S("x")>>, <<L(<<S("x"), F(1)>>), S("x")>>,
                <<Bool(TRUE), F(1)>>, <<Bool(FALSE), F(1)>>,
                <<S("x"), F(1), F(2)>>, <<Bool(TRUE), Pr(F(1)), Pr(F(2))>>,
                <<Bool(TRUE), F(1), F(2), F(3)>> } }

TypeForms ==
    { L(<<S(h)>> \o a) :
        h \in {"=", "<", ">", "<=", ">=", "+", "-", "*", "/", "and", "not"},
        a \in { <<F(1), String("a")>>, <<Bool(TRUE), Bool(FALSE)>>,
                <<F(4), F(2)>>, <<F(5)>>, <<Bool(FALSE)>>, <<S("u"), F(1)>> } }

IfForms ==
    { L(<<S("if"), Bool(TRUE), F(1), S("u")>>),
      L(<<S("if"), Bool(FALSE), S("u"), F(2)>>),
      L(<<S("if"), L(<<S("="), S("x"), F(5)>>), Pr(String("c")), Pr(String("a"))>>),
      L(<<S("if"), L(<<S("not"), Bool(TRUE)>>),
          L(<<S("def"), S("y"), F(1)>>), L(<<S("def"), S("z"), F(2)>>)>>),
      L(<<S("if"), F(1), Pr(F(2)), Pr(F(3))>>) }

QuasiForms ==
    { QQ(<<F(1), L(<<F(2), String("s")>>), S("a")>>),
      QQ(<<L(<<S("a"), S("b"), S("c")>>)>>),
      QQ(<<L(<<S("a"), S("b")>>), L(<<S("a"), F(1), S("b")>>)>>),
      QQ(<<F(1), L(<<L(<<S("f"), S("g"), F(1)>>)>>)>>),
      QQ(<<F(1), Spl("lst"), F(4)>>),
      QQ(<<S("a"), Spl("lst"), Spl("lst")>>),
      QQ(<<Unq("u"), F(1)>>),
      QQ(<<F(0), Unq("x")>>),
      QQ(<<Spl("x")>>),
      QQ(<<L(<<S("unquote"), S("x"), F(1)>>)>>),
      L(<<S("let"), L(<<S("lst"), L(<<S("quote"), L(<<F(2), F(3)>>)>>)>>),
          QQ(<<F(1), Spl("lst"), F(4)>>)>>),
      L(<<S("let"), L(<<S("y"), F(1)>>), QQ(<<F(1), Spl("lst")>>)>>),
      L(<<S("let"), L(<<S("y"), F(1)>>), QQ(<<Unq("x"), Unq("y"), Unq("u")>>)>>),
      L(<<S("do"), QQ(<<Spl("lst")>>)>>) }

ScopeForms ==
    { L(<<S("let"), L(<<S("x"), F(1)>>),
          L(<<S("let"), L(<<S("x"), F(2)>>), S("x")>>)>>),
      L(<<S("let"), L(<<S("x"), F(1)>>),
          L(<<S("+"), L(<<S("let"), L(<<S("x"), F(2)>>), S("x")>>),
              L(<<S("do"), L(<<S("def"), S("w"), F(3)>>), S("x")>>)>>)>>),
      L(<<S("let"), L(<<S("x"), F(1), S("y"), S("x")>>),
          L(<<S("def"), S("w"), S("y")>>)>>),
      L(<<S("do"), L(<<S("def"), S("x"), F(9)>>), S("x")>>),
      L(<<S("do"), Pr(F(1)), Pr(F(2))>>),
      L(<<S("do"), Pr(F(1))>>),
      L(<<S("do")>>),
      L(<<S("do"), L(<<S("def"), S("n"), F(1)>>),
          L(<<S("if"), L(<<S("="), S("n"), F(1)>>),
              L(<<S("def"), S("n"), F(2)>>), F(7)>>)>>),
      L(<<L(<<S("fn"), L(<<S("a")>>), L(<<S("+"), S("a"), F(1)>>)>>), F(2)>>),
      L(<<S("fn"), L(<<S("a")>>), L(<<S("+"), S("a"), F(1)>>), S("extra")>>),
      L(<<>>),
      L(<<F(1), F(2)>>) }

\* What eval_expr is called on.
Pool ==
    ScriptForms \cup MacroForms \cup ArityForms \cup TypeForms \cup IfForms
        \cup QuasiForms \cup ScopeForms

RECURSIVE SeqsUpTo(_, _)
SeqsUpTo(set, n) ==
    IF n = 0 THEN { <<>> }
    ELSE LET shorter == SeqsUpTo(set, n - 1)
         IN  shorter \cup { Append(q, x) : q \in shorter, x \in set }

Scripts == SeqsUpTo(ScriptForms, MaxForms)

\* ------------------------------------------------------------- the driver
VARIABLES
    pc,       \* "idle", "repl" (eval_expr calls), "run", "done", "panic"
    env,      \* the top-level environment, threaded through every call
    script,   \* eval_script: the parsed forms
    i,        \* eval_script: the index of the next form
    result,   \* what the last eval_expr / the eval_script call returned
    results,  \* (observer) eval_script: the outcome of every form it ran
    begun,    \* (observer) eval_script: the indices of the forms it started
    envs,     \* (observer) eval_script: the environment before and after each form
    last,     \* (observer) the last top-level form run, with its evaluator state
    calls     \* the number of eval_expr calls made

vars == <<pc, env, script, i, result, results, begun, envs, last, calls>>

Outcome(r) == [k |-> r.k, v |-> r.v, err |-> r.err]
NoOutcome == [k |-> "None", v |-> Nil, err |-> NoError]
Record(form, before, r) ==
    [form |-> form, before |-> before, k |-> r.k, v |-> r.v, err |-> r.err,
     st |-> r.st]

Init ==
    /\ pc = "idle"
    /\ env = DefaultEnv
    /\ script = <<>>
    /\ i = 0
    /\ result = NoOutcome
    /\ results = <<>>
    /\ begun = <<>>
    /\ envs = <<>>
    /\ last = Record(Nil, DefaultEnv, [NoOutcome EXCEPT !.k = "None"] @@ [st |-> InitSt(DefaultEnv)])
    /\ calls = 0

\* eval_expr: expand, then evaluate, one form against the environment.
eval_expr(input) ==
    /\ pc \in {"idle", "repl"}
    /\ calls < MaxCalls
    /\ \E r \in {RunForm(input, env)} :
           /\ last' = Record(input, env, r)
           /\ result' = Outcome(r)
           /\ env' = r.st.env
           /\ pc' = IF r.k = "Panic" THEN "panic" ELSE "repl"
    /\ calls' = calls + 1
    /\ UNCHANGED <<script, i, results, begun, envs>>

\* eval_script, its first line: the script is parsed.  `ast.len() - 1` on an
\* empty script underflows and the slice panics.
eval_script(input) ==
    /\ pc = "idle"
    /\ script' = input
    /\ i' = 1
    /\ pc' = IF Len(input) = 0 THEN "panic" ELSE "run"
    /\ UNCHANGED <<env, result, results, begun, envs, last, calls>>

\* (mutant) The loop goes on after a failed form.
AfterFormSwallow(r) == IF r.k = "Panic" THEN "panic" ELSE "run"

\* Where the loop goes after a form that is not the last: `?` returns the error.
AfterForm(r) ==
    IF r.k = "Ok" THEN "run" ELSE IF r.k = "Err" THEN "done" ELSE "panic"

\* for expr in &ast[..ast.len() - 1] { expr.expand_all(env)?.eval(env)?; }
script_step ==
    /\ pc = "run"
    /\ i < Len(script)
    /\ \E r \in {RunForm(script[i], env)} :
           /\ last' = Record(script[i], env, r)
           /\ results' = Append(results, Outcome(r))
           /\ envs' = Append(envs, [before |-> env, after |-> r.st.env])
           /\ env' = r.st.env
           /\ pc' = AfterForm(r)
           /\ result' = IF r.k = "Err" THEN Outcome(r) ELSE result
    /\ begun' = Append(begun, i)
    /\ i' = i + 1
    /\ UNCHANGED <<script, calls>>

\* final_expr.expand_all(env)?.eval(env)
script_final ==
    /\ pc = "run"
    /\ i = Len(script)
    /\ \E r \in {RunForm(script[i], env)} :
           /\ last' = Record(script[i], env, r)
           /\ results' = Append(results, Outcome(r))
           /\ envs' = Append(envs, [before |-> env, after |-> r.st.env])
           /\ env' = r.st.env
           /\ pc' = IF r.k = "Panic" THEN "panic" ELSE "done"
           /\ result' = Outcome(r)
    /\ begun' = Append(begun, i)
    /\ i' = i + 1
    /\ UNCHANGED <<script, calls>>

Next ==
    \/ \E input \in Pool : eval_expr(input)
    \/ \E input \in Scripts : eval_script(input)
    \/ script_step
    \/ script_final

Spec == Init /\ [][Next]_vars

\* ------------------------------------------------------------ observations
Range(q) == { q[j] : j \in DOMAIN q }
Log == Range(last.st.log)
\* The expressions eval was entered on during the native call c, in order.
Within(c) == SubSeq(last.st.tr, c.t0 + 1, c.t1)
Count(q, e) == Cardinality({ j \in DOMAIN q : q[j] = e })

RECURSIVE Subterms(_)
Subterms(e) == {e} \cup UNION { Subterms(e.l[j]) : j \in DOMAIN e.l }

Literal(e) == e.t \in {"Float", "Bool", "String"}

\* The binding of k a lookup from the innermost scope outwards finds first.
Innermost(chain, k) ==
    LET js == { j \in 1..Len(chain) : k \in DOMAIN chain[j] }
    IN  IF js = {} THEN None
        ELSE Some(chain[CHOOSE j \in js : \A j2 \in js : j2 <= j][k])

\* The value of a literal or of a symbol in a chain.
ValueOf(e, chain) == IF e.t = "Symbol" THEN Innermost(chain, e.s).v ELSE e

IsDef(form, sym) ==
    /\ form.t = "List"
    /\ Len(form.l) = 3
    /\ form.l[1] = Symbol("def")
    /\ form.l[2] = Symbol(sym)

\* C1: eval_script runs the top-level forms strictly in order, each against
\* the environment the one before it left; a failing form ends the call with
\* its error as the result and no later form is started; when no form fails
\* the result is the value of the last form.
C1_ScriptStopsAtFirstError ==
    /\ begun = [j \in 1..Len(begun) |-> j]
    /\ Len(results) = Len(begun)
    /\ Len(envs) = Len(begun)
    /\ \A j \in 2..Len(envs) : envs[j].before = envs[j - 1].after
    /\ Len(envs) >= 1 => env = envs[Len(envs)].after
    /\ \A j \in 1..Len(results) :
          results[j].k = "Err" =>
              /\ j = Len(results)
              /\ pc = "done"
              /\ result = results[j]
    /\ (pc = "done" /\ \A j \in 1..Len(results) : results[j].k = "Ok") =>
          /\ Len(results) = Len(script)
          /\ result = results[Len(script)]
    /\ pc = "run" => Len(results) < Len(script)

\* A script whose form (m) fails in macro expansion before its last form.
C1_Witness ==
    /\ pc = "done"
    /\ result.k = "Err"
    /\ result.err = Arity
    /\ Len(results) < Len(script)
    /\ script[Len(results)] = L(<<S("m")>>)

\* C2: a successful (def S E) returns the symbol S and binds S to the value of
\* E in the innermost table of the environment it ran in; in a script every
\* later sibling form that looks S up sees that value, and (def x 5) followed
\* by (+ x 1) gives 6.
C2_DefBindsAndReturnsSymbol ==
    /\ \A c \in Log :
          (c.name = "def" /\ c.k = "Ok") =>
              /\ Len(c.args) = 2
              /\ c.v = c.args[1]
              /\ c.v.t = "Symbol"
              /\ Len(c.after) = Len(c.env)
              /\ Front(c.after) = Front(c.env)
              /\ c.v.s \in DOMAIN c.after[Len(c.after)]
              /\ (Literal(c.args[2]) \/ c.args[2].t = "Symbol") =>
                    c.after[Len(c.after)][c.v.s] = ValueOf(c.args[2], c.env)
    /\ \A j \in 1..Len(results) : \A k \in (j + 1)..Len(results) :
          ( /\ script[j].t = "List"
            /\ Len(script[j].l) = 3
            /\ script[j].l[1] = Symbol("def")
            /\ script[j].l[2].t = "Symbol"
            /\ Literal(script[j].l[3])
            /\ results[j].k = "Ok"
            /\ script[k] = script[j].l[2]
            /\ \A m \in (j + 1)..(k - 1) : ~IsDef(script[m], script[j].l[2].s) )
          => results[k] = [k |-> "Ok", v |-> script[j].l[3], err |-> NoError]
    /\ (pc = "done" /\ script = <<DefX, L(<<S("+"), S("x"), F(1)>>)>>) =>
          result = [k |-> "Ok", v |-> F(6), err |-> NoError]

C2_Witness ==
    /\ pc = "done"
    /\ script = <<DefX, L(<<S("+"), S("x"), F(1)>>)>>
    /\ result.v = F(6)
    /\ \E c \in Log : c.name = "+" /\ Innermost(c.env, "x") = Some(F(5))

\* C3: in (if T C A) the test is evaluated first, then C alone when T is true
\* and A alone when T is false, never both; an untaken branch, an undefined
\* symbol included, raises nothing and changes nothing.
IfBranchesApart(c) ==
    LET T == c.args[1]
        C == c.args[2]
        A == c.args[3]
    IN  /\ C # A
        /\ C \notin Subterms(T) \cup Subterms(A)
        /\ A \notin Subterms(T) \cup Subterms(C)

C3_IfEvaluatesOneBranch ==
    \A c \in Log :
        (c.name = "if" /\ Len(c.args) = 3 /\ IfBranchesApart(c)) =>
            LET T == c.args[1]
                C == c.args[2]
                A == c.args[3]
                test == Eval(T, InitSt(c.env))
                w == Within(c)
            IN  /\ w # <<>> /\ w[1] = T
                /\ Count(w, C) + Count(w, A) <= 1
                /\ (test.k = "Ok" /\ test.v = Bool(TRUE)) =>
                      /\ Count(w, C) = 1 /\ Count(w, A) = 0
                      /\ Literal(C) => (c.k = "Ok" /\ c.v = C)
                      /\ Literal(C) => c.after = test.st.env
                /\ (test.k = "Ok" /\ test.v = Bool(FALSE)) =>
                      /\ Count(w, A) = 1 /\ Count(w, C) = 0
                      /\ Literal(A) => (c.k = "Ok" /\ c.v = A)
                      /\ Literal(A) => c.after = test.st.env
                /\ (test.k # "Ok" \/ test.v.t # "Bool") =>
                      Count(w, C) + Count(w, A) = 0

\* (if true 1 u) with u undefined gives 1.
C3_Witness ==
    \E c \in Log :
        /\ c.name = "if"
        /\ c.args = <<Bool(TRUE), F(1), S("u")>>
        /\ ~Innermost(c.env, "u").some
        /\ Count(Within(c), F(1)) = 1
        /\ c.k = "Ok" /\ c.v = F(1)

\* (if (not true) (def y 1) (def z 2)) binds z and not y.
C3_WitnessSideEffect ==
    \E c \in Log :
        /\ c.name = "if"
        /\ Len(c.args) = 3
        /\ c.args[1] = L(<<S("not"), Bool(TRUE)>>)
        /\ "z" \in DOMAIN c.after[1]
        /\ "y" \notin DOMAIN c.after[1]

\* The type an operator requires of its evaluated arguments.
Numeric == {"=", "<", ">", "<=", ">=", "+", "-", "*", "/"}
Logic == {"and", "not"}
Required(name) == IF name \in Numeric THEN "Float" ELSE "Bool"

\* For the calls of the operators ops: when every argument evaluates and one
\* of the values is not of the required type, the call fails with
\* TypeMismatch(required type, the first such value).
TypeMismatchFor(ops) ==
    \A c \in Log :
        c.name \in ops =>
            LET vals == eval_forms(c.args, InitSt(c.env))
                bad == { j \in 1..Len(c.args) : vals.vals[j].t # Required(c.name) }
            IN  (vals.k = "Ok" /\ bad # {}) =>
                    LET j == CHOOSE j \in bad : \A j2 \in bad : j <= j2
                    IN  /\ c.k = "Err"
                        /\ c.err = TypeMismatch(Required(c.name), vals.vals[j])

\* C4: every arithmetic, comparison and logic primitive fails with
\* TypeMismatch(expected type, offending value) when an argument evaluates to
\* a value of another type.
C4_TypeMismatchEveryPrimitive == TypeMismatchFor(Numeric \cup Logic)

\* The same for every primitive but "not".
C4_TypeMismatchButNot == TypeMismatchFor(Numeric \cup {"and"})

\* A list that is an unquote or a splice-unquote form.
IsUnquoteForm(e) ==
    /\ e.t = "List"
    /\ Len(e.l) >= 1
    /\ e.l[1] \in {Symbol("unquote"), Symbol("splice-unquote")}

Plain(args) == \A j \in DOMAIN args : \A e \in Subterms(args[j]) : ~IsUnquoteForm(e)

\* C5: quasiquote of a list holding no unquote and no splice-unquote form, at
\* any depth, returns that list unchanged and never an error.
C5_QuasiquotePlainIsIdentity ==
    \A c \in Log :
        (c.name = "quasiquote" /\ Plain(c.args)) =>
            (c.k = "Ok" /\ c.v = List(c.args))

\* The same for templates none of whose nested lists starts with two symbols
\* followed by more.
TwoSymbolsAndMore(e) ==
    /\ e.t = "List"
    /\ Len(e.l) > 2
    /\ e.l[1].t = "Symbol"
    /\ e.l[2].t = "Symbol"

C5_QuasiquotePlainButTwoSymbols ==
    \A c \in Log :
        ( /\ c.name = "quasiquote"
          /\ Plain(c.args)
          /\ \A j \in DOMAIN c.args : \A e \in Subterms(c.args[j]) :
                ~TwoSymbolsAndMore(e) )
        => (c.k = "Ok" /\ c.v = List(c.args))

\* (splice-unquote SYM) with SYM bound to a List in the table data.
IsSplice(e, data) ==
    /\ e.t = "List"
    /\ Len(e.l) = 2
    /\ e.l[1] = Symbol("splice-unquote")
    /\ e.l[2].t = "Symbol"
    /\ e.l[2].s \in DOMAIN data
    /\ data[e.l[2].s].t = "List"

\* The template read left to right, every splice form replaced by the
\* elements of its list.
RECURSIVE Spliced(_, _)
Spliced(args, data) ==
    IF args = <<>> THEN <<>>
    ELSE (IF IsSplice(Head(args), data)
          THEN data[Head(args).l[2].s].l
          ELSE <<Head(args)>>) \o Spliced(Tail(args), data)

\* C6: the elements of a list spliced by (splice-unquote SYM) appear at the
\* place of the splice form, in their order, between the elements before and
\* after it, which keep their order: (1 ,@lst 4) with lst = (2 3) is (1 2 3 4).
C6_SpliceKeepsOrder ==
    \A c \in Log :
        ( /\ c.name = "quasiquote"
          /\ \E j \in DOMAIN c.args : IsSplice(c.args[j], c.env[Len(c.env)])
          /\ \A j \in DOMAIN c.args :
                \/ c.args[j].t # "List"
                \/ IsSplice(c.args[j], c.env[Len(c.env)]) )
        => /\ c.k = "Ok"
           /\ c.v = List(Spliced(c.args, c.env[Len(c.env)]))

C6_Witness ==
    \E c \in Log :
        /\ c.name = "quasiquote"
        /\ c.args = <<F(1), Spl("lst"), F(4)>>
        /\ c.env[Len(c.env)]["lst"] = L(<<F(2), F(3)>>)
        /\ c.v = L(<<F(1), F(2), F(3), F(4)>>)

\* C7: lookup takes the innermost binding, so (let (S 1) (let (S 2) S)) is 2;
\* what a let or a do binds (by its pairs, by def) goes into its own table,
\* so the chain it was called in is unchanged when it returns.
IsShadowing(c) ==
    /\ c.name = "let"
    /\ Len(c.args) = 2
    /\ c.args[1].t = "List"
    /\ Len(c.args[1].l) = 2
    /\ c.args[1].l[1].t = "Symbol"
    /\ Literal(c.args[1].l[2])
    /\ c.args[2].t = "List"
    /\ Len(c.args[2].l) = 3
    /\ c.args[2].l[1] = Symbol("let")
    /\ c.args[2].l[2].t = "List"
    /\ Len(c.args[2].l[2].l) = 2
    /\ c.args[2].l[2].l[1] = c.args[1].l[1]
    /\ Literal(c.args[2].l[2].l[2])
    /\ c.args[2].l[3] = c.args[1].l[1]

C7_ScopesShadowAndStayLocal ==
    /\ \A c \in Log : c.name \in {"let", "do"} => c.after = c.env
    /\ \A c \in Log : IsShadowing(c) => (c.k = "Ok" /\ c.v = c.args[2].l[2].l[2])
    /\ \A c \in Log :
          (c.name = "do" /\ c.k = "Ok" /\ c.args[Len(c.args)].t = "Symbol"
              /\ \A j \in 1..(Len(c.args) - 1) :
                    ~IsDef(c.args[j], c.args[Len(c.args)].s)) =>
              c.v = Innermost(c.env, c.args[Len(c.args)].s).v
    /\ ( /\ last.k \in {"Ok", "Err"}
         /\ last.form.t = "List"
         /\ Len(last.form.l) >= 1
         /\ last.form.l[1] \in {Symbol("let"), Symbol("do")} )
       => env = last.before

\* (let (x 1) (+ (let (x 2) x) (do (def w 3) x))) run where x is 5 at the top:
\* the inner let gives 2 under an outer x of 1, the do then sees 1 again, its
\* def of w stays in its own table, and x is still 5 at the top afterwards.
C7_Witness ==
    /\ \E c \in Log :
          /\ c.name = "let" /\ c.k = "Ok" /\ c.v = F(2)
          /\ Innermost(c.env, "x") = Some(F(1))
    /\ \E c \in Log :
          /\ c.name = "def" /\ c.k = "Ok" /\ Len(c.env) = 3
          /\ c.after[3]["w"] = F(3)
    /\ \E c \in Log : c.name = "do" /\ c.k = "Ok" /\ c.v = F(1)
    /\ \E c \in Log : c.name = "+" /\ c.k = "Ok" /\ c.v = F(3)
    /\ "w" \notin DOMAIN env[1]
    /\ Innermost(env, "x") = Some(F(5))
    /\ Innermost(last.before, "x") = Some(F(5))

\* C8: (do F1 .. Fn), n >= 1, evaluates every form Fi exactly once, the last
\* one included, in one child scope, and returns the value of Fn.
FormsApart(args) ==
    \A j \in DOMAIN args : \A j2 \in DOMAIN args :
        j # j2 => args[j] \notin Subterms(args[j2])

C8_DoEvaluatesEachFormOnce ==
    \A c \in Log :
        (c.name = "do" /\ Len(c.args) >= 1 /\ c.k = "Ok" /\ FormsApart(c.args)) =>
            \A j \in DOMAIN c.args : Count(Within(c), c.args[j]) = 1

\* What the code does: the last form is evaluated twice, the others once.
C8_DoEvaluatesLastFormTwice ==
    \A c \in Log :
        (c.name = "do" /\ Len(c.args) >= 1 /\ c.k = "Ok" /\ FormsApart(c.args)) =>
            \A j \in DOMAIN c.args :
                Count(Within(c), c.args[j]) = IF j = Len(c.args) THEN 2 ELSE 1

\* C9: def, if, fn, macro and let return Arity on any number of arguments
\* other than theirs (2, 3, 2, 2, 2), zero included, without a panic.
FixedArity(name) == IF name = "if" THEN 3 ELSE 2

C9_WrongArgumentCountIsArity ==
    \A c \in Log :
        ( /\ c.name \in {"def", "if", "fn", "macro", "let"}
          /\ Len(c.args) # FixedArity(c.name) )
        => (c.k = "Err" /\ c.err = Arity)

\* The same for fn, macro and let alone.
C9_WrongArgumentCountFnMacroLet ==
    \A c \in Log :
        (c.name \in {"fn", "macro", "let"} /\ Len(c.args) # 2)
        => (c.k = "Err" /\ c.err = Arity)

\* C10: (splice-unquote SYM) is looked up in the innermost table alone and is
\* SymbolNotFound(SYM) when absent there, bound further out or not;
\* (unquote SYM) is looked up through the chain and stays as written, with no
\* error, when SYM is bound nowhere.
IsForm(e, head) ==
    /\ e.t = "List"
    /\ Len(e.l) = 2
    /\ e.l[1] = Symbol(head)
    /\ e.l[2].t = "Symbol"

C10_SpliceInnermostUnquoteChain ==
    /\ \A c \in Log : \A j \in DOMAIN c.args :
          ( /\ c.name = "quasiquote"
            /\ IsForm(c.args[j], "splice-unquote")
            /\ c.args[j].l[2].s \notin DOMAIN c.env[Len(c.env)]
            /\ \A j2 \in (j + 1)..Len(c.args) : c.args[j2].t # "List" )
          => (c.k = "Err" /\ c.err = SymbolNotFound(c.args[j].l[2].s))
    /\ \A c \in Log :
          ( /\ c.name = "quasiquote"
            /\ \A j \in DOMAIN c.args :
                  c.args[j].t # "List" \/ IsForm(c.args[j], "unquote") )
          => /\ c.k = "Ok"
             /\ c.v.t = "List"
             /\ Len(c.v.l) = Len(c.args)
             /\ \A j \in DOMAIN c.args :
                   c.v.l[j] =
                       IF IsForm(c.args[j], "unquote")
                          /\ Innermost(c.env, c.args[j].l[2].s).some
                       THEN Innermost(c.env, c.args[j].l[2].s).v
                       ELSE c.args[j]

\* A splice of lst, bound at the top and not in the let scope at hand, fails.
C10_Witness ==
    \E c \in Log :
        /\ c.name = "quasiquote"
        /\ Len(c.env) = 2
        /\ c.args = <<F(1), Spl("lst")>>
        /\ "lst" \in DOMAIN c.env[1]
        /\ c.env[1]["lst"].t = "List"
        /\ c.k = "Err"
        /\ c.err = SymbolNotFound("lst")

\* Unquotes of x (bound at the top), y (bound by the let) and u (unbound).
C10_WitnessUnquote ==
    \E c \in Log :
        /\ c.name = "quasiquote"
        /\ c.args = <<Unq("x"), Unq("y"), Unq("u")>>
        /\ c.k = "Ok"
        /\ c.v = L(<<F(5), F(1), Unq("u")>>)

====
